---- MODULE Spec2Model ----
(***************************************************************************)
(* A model of clean-task-definition.py: the DictCleaner pruning passes,    *)
(* the TaskDefinitionCleaner / ContainerDefinitionCleaner rule tables and  *)
(* the command-line driver that rewrites task definition files in place.   *)
(*                                                                         *)
(* JSON values are tagged tuples.  A Python dict is the sequence of its    *)
(* <<key, value>> pairs in insertion order, keys distinct.  A raised       *)
(* exception is the value <<"raise", kind>>.                               *)
(***************************************************************************)
EXTENDS Integers, Sequences, FiniteSets, TLC

VARIABLES
    fs,                 \* path -> text of the file (or NoFile)
    argv,               \* sys.argv[1:]
    pc,                 \* position of the driver
    idx,                \* index into argv of the file being processed
    task_def_str,       \* local of the driver
    task_def,           \* local of the driver (mutated in place by clean)
    clean_task_def_str, \* local of the driver
    changes_made,       \* local of the driver
    exit_code,          \* exit status of the process, -1 while running
    stderr,             \* lines written by log()
    writes,             \* history: argv positions at which the file was written
    run,                \* history: 1 for the first invocation, 2 for a rerun
    fs0,                \* history: the file system before the first invocation
    fs1,                \* history: the file system when the first invocation ended
    exit1,              \* history: exit status of the first invocation
    end1,               \* history: how the first invocation ended ("done", "aborted")
    doc,                \* pruning harness: the parsed document
    once,               \* pruning harness: TaskDefinitionCleaner.clean(doc)
    twice,              \* pruning harness: the same applied to the result
    phase               \* pruning harness: "idle", "parsed", "cleaned", "recleaned"

vars == <<fs, argv, pc, idx, task_def_str, task_def, clean_task_def_str,
          changes_made, exit_code, stderr, writes, run, fs0, fs1, exit1,
          end1, doc, once, twice, phase>>

cliVars == <<fs, argv, pc, idx, task_def_str, task_def, clean_task_def_str,
             changes_made, exit_code, stderr, writes, run, fs0, fs1, exit1,
             end1>>

harnessVars == <<doc, once, twice, phase>>

(***************************************************************************)
(* JSON values as json.loads builds them                                   *)
(***************************************************************************)
Null == <<"null">>
Num(n) == <<"num", n>>
Bool(b) == <<"bool", b>>
Str(s) == <<"str", s>>
List(elems) == <<"list", elems>>
Dict(pairs) == <<"dict", pairs>>
Raise(kind) == <<"raise", kind>>

Tag(v) == v[1]
IsDict(v) == Tag(v) = "dict"
IsList(v) == Tag(v) = "list"
IsStr(v) == Tag(v) = "str"
IsRaise(v) == Tag(v) = "raise"

Keys(d) == {d[2][i][1] : i \in 1..Len(d[2])}
HasKey(d, k) == \E i \in 1..Len(d[2]) : d[2][i][1] = k
Get(d, k) == d[2][CHOOSE i \in 1..Len(d[2]) : d[2][i][1] = k][2]
Del(d, k) == Dict(SelectSeq(d[2], LAMBDA p : p[1] # k))
Put(d, k, v) ==
    IF HasKey(d, k)
    THEN Dict([i \in 1..Len(d[2]) |-> IF d[2][i][1] = k THEN <<k, v>> ELSE d[2][i]])
    ELSE Dict(Append(d[2], <<k, v>>))

\* `k in s` for a str s: substring test
IsSubstring(k, s) ==
    \E i \in 1..Len(s) : \E j \in i..Len(s) : SubSeq(s, i, j) = k

\* `k in d`: defined for dict (key), str (substring) and list (element)
CanContain(d) == Tag(d) \in {"dict", "str", "list"}
Contains(k, d) ==
    CASE IsDict(d) -> HasKey(d, k)
      [] IsStr(d) -> IsSubstring(k, d[2])
      [] IsList(d) -> \E i \in 1..Len(d[2]) : d[2][i] = Str(k)
      [] OTHER -> FALSE

(***************************************************************************)
(* Rule tables                                                             *)
(***************************************************************************)
DictCleaner ==
    [keys_ignored |-> <<>>,
     keys_none_default |-> <<>>,
     keys_empty_list_default |-> <<>>]

TaskDefinitionCleaner ==
    [keys_ignored |->
        <<"compatibilities", "taskDefinitionArn", "requiresAttributes", "revision",
          "status", "registeredAt", "deregisteredAt", "registeredBy">>,
     keys_none_default |->
        <<"cpu", "ephemeralStorage", "executionRoleArn", "inferenceAccelerators",
          "ipcMode", "memory", "networkMode", "pidMode", "placementConstraints",
          "proxyConfiguration", "requiresCompatibilities", "tags", "taskRoleArn",
          "volumes">>,
     keys_empty_list_default |->
        <<"placementConstraints", "requiresCompatibilities", "tags", "volumes">>]

ContainerDefinitionCleaner ==
    [keys_ignored |-> DictCleaner.keys_ignored,
     keys_none_default |->
        <<"command", "cpu", "dependsOn", "disableNetworking", "dnsSearchDomains",
          "dnsServers", "dockerLabels", "dockerSecurityOptions", "entryPoint",
          "environment", "environmentFiles", "essential", "extraHosts",
          "firelensConfiguration", "healthCheck", "hostname", "image",
          "interactive", "links", "linuxParameters", "logConfiguration", "memory",
          "memoryReservation", "mountPoints", "name", "portMappings", "privileged",
          "pseudoTerminal", "readonlyRootFilesystem", "repositoryCredentials",
          "resourceCredentials", "resourceRequirements", "secrets", "startTimeout",
          "stopTimeout", "systemControls", "ulimits", "user", "volumesFrom",
          "workingDirectory">>,
     keys_empty_list_default |->
        <<"dependsOn", "dnsSearchDomains", "dnsServers", "dockerSecurityOptions",
          "environment", "environmentFiles", "extraHosts", "links", "mountPoints",
          "portMappings", "resourceRequirements", "secrets", "systemControls",
          "ulimits", "volumesFrom">>]

Range(s) == {s[i] : i \in 1..Len(s)}

(***************************************************************************)
(* DictCleaner: the three passes.  A pass state is [d, log]: the object    *)
(* being cleaned (or the exception raised) and the lines logged so far.    *)
(***************************************************************************)
log(st, k, why) == Append(st.log, <<k, why>>)

\* one iteration of the loop of _clean_ignored_keys
IgnoredStep(k, st) ==
    IF ~CanContain(st.d) THEN [st EXCEPT !.d = Raise("TypeError")]
    ELSE IF ~Contains(k, st.d) THEN st
    ELSE IF IsDict(st.d)
         THEN [d |-> Del(st.d, k), log |-> log(st, k, "ignored")]
         ELSE [d |-> Raise("TypeError"), log |-> log(st, k, "ignored")]

\* mutant: `not d[k]` where the code has `d[k] is None`
NoneDefaultStepFalsy(k, st) ==
    IF ~CanContain(st.d) THEN [st EXCEPT !.d = Raise("TypeError")]
    ELSE IF ~Contains(k, st.d) THEN st
    ELSE IF ~IsDict(st.d) THEN [st EXCEPT !.d = Raise("TypeError")]
    ELSE IF Get(st.d, k) \in {Null, Num(0), Bool(FALSE), Str(""), List(<<>>), Dict(<<>>)}
         THEN [d |-> Del(st.d, k), log |-> log(st, k, "null")]
         ELSE st

\* one iteration of the loop of _clean_none_default_keys
NoneDefaultStep(k, st) ==
    IF ~CanContain(st.d) THEN [st EXCEPT !.d = Raise("TypeError")]
    ELSE IF ~Contains(k, st.d) THEN st
    ELSE IF ~IsDict(st.d) THEN [st EXCEPT !.d = Raise("TypeError")]
    ELSE IF Get(st.d, k) = Null
         THEN [d |-> Del(st.d, k), log |-> log(st, k, "null")]
         ELSE st

\* mutant: `len(d[k]) == 0` without the `type(d[k]) == list` test
EmptyListDefaultStepAnyEmpty(k, st) ==
    IF ~CanContain(st.d) THEN [st EXCEPT !.d = Raise("TypeError")]
    ELSE IF ~Contains(k, st.d) THEN st
    ELSE IF ~IsDict(st.d) THEN [st EXCEPT !.d = Raise("TypeError")]
    ELSE IF Tag(Get(st.d, k)) \notin {"list", "str", "dict"}
         THEN [st EXCEPT !.d = Raise("TypeError")]
    ELSE IF Len(Get(st.d, k)[2]) = 0
         THEN [d |-> Del(st.d, k), log |-> log(st, k, "[]")]
         ELSE st

\* one iteration of the loop of _clean_empty_list_default_keys
EmptyListDefaultStep(k, st) ==
    IF ~CanContain(st.d) THEN [st EXCEPT !.d = Raise("TypeError")]
    ELSE IF ~Contains(k, st.d) THEN st
    ELSE IF ~IsDict(st.d) THEN [st EXCEPT !.d = Raise("TypeError")]
    ELSE IF IsList(Get(st.d, k)) /\ Len(Get(st.d, k)[2]) = 0
         THEN [d |-> Del(st.d, k), log |-> log(st, k, "[]")]
         ELSE st

RECURSIVE _clean_ignored_keys(_, _, _)
_clean_ignored_keys(keys, i, st) ==
    IF i > Len(keys) \/ IsRaise(st.d) THEN st
    ELSE _clean_ignored_keys(keys, i + 1, IgnoredStep(keys[i], st))

\* mutant: the loop returns right after its first deletion
RECURSIVE _clean_none_default_keys_first_only(_, _, _)
_clean_none_default_keys_first_only(keys, i, st) ==
    IF i > Len(keys) \/ IsRaise(st.d) THEN st
    ELSE LET nxt == NoneDefaultStep(keys[i], st)
         IN  IF nxt.log # st.log THEN nxt
             ELSE _clean_none_default_keys_first_only(keys, i + 1, nxt)

RECURSIVE _clean_none_default_keys(_, _, _)
_clean_none_default_keys(keys, i, st) ==
    IF i > Len(keys) \/ IsRaise(st.d) THEN st
    ELSE _clean_none_default_keys(keys, i + 1, NoneDefaultStep(keys[i], st))

RECURSIVE _clean_empty_list_default_keys(_, _, _)
_clean_empty_list_default_keys(keys, i, st) ==
    IF i > Len(keys) \/ IsRaise(st.d) THEN st
    ELSE _clean_empty_list_default_keys(keys, i + 1, EmptyListDefaultStep(keys[i], st))

\* DictCleaner.clean for the class cls
DictClean(cls, st) ==
    _clean_empty_list_default_keys(cls.keys_empty_list_default, 1,
        _clean_none_default_keys(cls.keys_none_default, 1,
            _clean_ignored_keys(cls.keys_ignored, 1, st)))

(***************************************************************************)
(* TaskDefinitionCleaner.clean                                             *)
(***************************************************************************)
\* the objects `for x in v` yields, for the v that can be iterated
CanIterate(v) == Tag(v) \in {"list", "str", "dict"}
Iterate(v) ==
    CASE IsList(v) -> v[2]
      [] IsStr(v) -> [i \in 1..Len(v[2]) |-> Str(SubSeq(v[2], i, i))]
      [] IsDict(v) -> [i \in 1..Len(v[2]) |-> Str(v[2][i][1])]
      [] OTHER -> <<>>

\* mutant: the elements are cleaned with the rules of the root record
RECURSIVE CleanContainersAsRoot(_, _, _)
CleanContainersAsRoot(elems, i, st) ==
    IF i > Len(elems) \/ IsRaise(st.d) THEN st
    ELSE LET one == DictClean(TaskDefinitionCleaner,
                              [d |-> elems[i], log |-> st.log])
         IN CleanContainersAsRoot(elems, i + 1,
                [d |-> IF IsRaise(one.d) THEN one.d
                       ELSE List(Append(st.d[2], one.d)),
                 log |-> one.log])

\* the list comprehension over task_definition["containerDefinitions"]:
\* st.d is the list built so far, or the exception one element raised
RECURSIVE CleanContainers(_, _, _)
CleanContainers(elems, i, st) ==
    IF i > Len(elems) \/ IsRaise(st.d) THEN st
    ELSE LET one == DictClean(ContainerDefinitionCleaner,
                              [d |-> elems[i], log |-> st.log])
         IN CleanContainers(elems, i + 1,
                [d |-> IF IsRaise(one.d) THEN one.d
                       ELSE List(Append(st.d[2], one.d)),
                 log |-> one.log])

TaskClean(td) ==
    LET root == DictClean(TaskDefinitionCleaner, [d |-> td, log |-> <<>>])
    IN  IF IsRaise(root.d) THEN root
        ELSE IF ~IsDict(root.d) THEN [root EXCEPT !.d = Raise("TypeError")]
        ELSE IF ~HasKey(root.d, "containerDefinitions")
             THEN [root EXCEPT !.d = Raise("KeyError")]
        ELSE IF ~CanIterate(Get(root.d, "containerDefinitions"))
             THEN [root EXCEPT !.d = Raise("TypeError")]
        ELSE LET cds == CleanContainers(
                            Iterate(Get(root.d, "containerDefinitions")), 1,
                            [d |-> List(<<>>), log |-> root.log])
             IN  IF IsRaise(cds.d) THEN cds
                 ELSE [d |-> Put(root.d, "containerDefinitions", cds.d),
                       log |-> cds.log]

(***************************************************************************)
(* json.loads and json.dumps(indent=4, sort_keys=True).  The text of a     *)
(* file is its layout (the whitespace: "indent4" is what dumps emits,      *)
(* "other" is anything else) and the tree it spells, keys in the order     *)
(* written.  Malformed is any text json.loads rejects.                     *)
(***************************************************************************)
Text(layout, tree) == <<"text", layout, tree>>
Malformed == <<"malformed">>
NoFile == <<"nofile">>

\* the keys of the model's documents, in the order sorted() gives them
KeyOrder ==
    <<"a", "containerDefinitions", "cpu", "essential", "family", "name",
      "portMappings", "status", "tags">>

RECURSIVE SortKeys(_)
SortKeys(v) ==
    CASE IsDict(v) ->
            LET present == SelectSeq(KeyOrder, LAMBDA k : HasKey(v, k))
            IN  Dict([i \in 1..Len(present) |->
                        <<present[i], SortKeys(Get(v, present[i]))>>])
      [] IsList(v) -> List([i \in 1..Len(v[2]) |-> SortKeys(v[2][i])])
      [] OTHER -> v

loads(text) == IF text = Malformed THEN Raise("JSONDecodeError") ELSE text[3]

dumps(v) == Text("indent4", SortKeys(v))

(***************************************************************************)
(* The driver                                                              *)
(***************************************************************************)
MaxFiles == 2

Paths == {"a.json", "b.json"}

\* mutant: the exception ends the loop and the flag decides the status
AbortWithFlag ==
    /\ pc' = "aborted"
    /\ exit_code' = IF changes_made THEN 1 ELSE 0

\* an exception nothing catches: the interpreter prints the traceback and the
\* process ends with status 1
Abort ==
    /\ pc' = "aborted"
    /\ exit_code' = 1

\* with open(f_path) as f: task_def_str = f.read()
ReadFile ==
    /\ pc = "for"
    /\ idx <= Len(argv)
    /\ IF fs[argv[idx]] = NoFile
       THEN /\ Abort
            /\ UNCHANGED task_def_str
       ELSE /\ task_def_str' = fs[argv[idx]]
            /\ pc' = "loads"
            /\ UNCHANGED exit_code
    /\ UNCHANGED <<fs, argv, idx, task_def, clean_task_def_str, changes_made,
                   stderr, writes, run, fs0, fs1, exit1, end1>>
    /\ UNCHANGED harnessVars

\* mutant: the text read from the file is compared, not its canonical form
LoadsKeepsFileText ==
    /\ pc = "loads"
    /\ IF IsRaise(loads(task_def_str))
       THEN /\ Abort
            /\ UNCHANGED <<task_def, task_def_str>>
       ELSE /\ task_def' = loads(task_def_str)
            /\ pc' = "clean"
            /\ UNCHANGED <<exit_code, task_def_str>>
    /\ UNCHANGED <<fs, argv, idx, clean_task_def_str, changes_made,
                   stderr, writes, run, fs0, fs1, exit1, end1>>
    /\ UNCHANGED harnessVars

\* task_def = json.loads(task_def_str); task_def_str = json.dumps(task_def, ...)
Loads ==
    /\ pc = "loads"
    /\ IF IsRaise(loads(task_def_str))
       THEN /\ Abort
            /\ UNCHANGED <<task_def, task_def_str>>
       ELSE /\ task_def' = loads(task_def_str)
            /\ task_def_str' = dumps(loads(task_def_str))
            /\ pc' = "clean"
            /\ UNCHANGED exit_code
    /\ UNCHANGED <<fs, argv, idx, clean_task_def_str, changes_made,
                   stderr, writes, run, fs0, fs1, exit1, end1>>
    /\ UNCHANGED harnessVars

\* clean_task_def = TaskDefinitionCleaner.clean(task_def); clean_task_def_str = ...
Clean ==
    /\ pc = "clean"
    /\ LET r == TaskClean(task_def)
       IN  /\ stderr' = stderr \o r.log
           /\ IF IsRaise(r.d)
              THEN /\ Abort
                   /\ UNCHANGED <<task_def, clean_task_def_str>>
              ELSE /\ task_def' = r.d
                   /\ clean_task_def_str' = dumps(r.d)
                   /\ pc' = "compare"
                   /\ UNCHANGED exit_code
    /\ UNCHANGED <<fs, argv, idx, task_def_str, changes_made,
                   writes, run, fs0, fs1, exit1, end1>>
    /\ UNCHANGED harnessVars

\* the comparison of the two serializations
Changed(before, after) == after # before

\* mutant: the rewrite is put off to the end of the run
WriteBackDeferred ==
    /\ pc = "compare"
    /\ IF Changed(task_def_str, clean_task_def_str)
       THEN changes_made' = TRUE
       ELSE UNCHANGED changes_made
    /\ idx' = idx + 1
    /\ pc' = "for"
    /\ UNCHANGED <<fs, writes, argv, task_def_str, task_def, clean_task_def_str,
                   exit_code, stderr, run, fs0, fs1, exit1, end1>>
    /\ UNCHANGED harnessVars

\* mutant: the flag is assigned the outcome of every comparison, so a later
\* unchanged file resets it
WriteBackAssignsFlag ==
    /\ pc = "compare"
    /\ changes_made' = Changed(task_def_str, clean_task_def_str)
    /\ IF Changed(task_def_str, clean_task_def_str)
       THEN /\ fs' = [fs EXCEPT ![argv[idx]] = clean_task_def_str]
            /\ writes' = writes \cup {idx}
       ELSE UNCHANGED <<fs, writes>>
    /\ idx' = idx + 1
    /\ pc' = "for"
    /\ UNCHANGED <<argv, task_def_str, task_def, clean_task_def_str,
                   exit_code, stderr, run, fs0, fs1, exit1, end1>>
    /\ UNCHANGED harnessVars

\* if clean_task_def_str != task_def_str: changes_made = True; write the file
WriteBack ==
    /\ pc = "compare"
    /\ IF Changed(task_def_str, clean_task_def_str)
       THEN /\ changes_made' = TRUE
            /\ fs' = [fs EXCEPT ![argv[idx]] = clean_task_def_str]
            /\ writes' = writes \cup {idx}
       ELSE UNCHANGED <<changes_made, fs, writes>>
    /\ idx' = idx + 1
    /\ pc' = "for"
    /\ UNCHANGED <<argv, task_def_str, task_def, clean_task_def_str,
                   exit_code, stderr, run, fs0, fs1, exit1, end1>>
    /\ UNCHANGED harnessVars

\* int(changes_made)
ExitStatus(flag) == IF flag THEN 1 ELSE 0

\* exit(int(changes_made))
Exit ==
    /\ pc = "for"
    /\ idx > Len(argv)
    /\ exit_code' = ExitStatus(changes_made)
    /\ pc' = "done"
    /\ UNCHANGED <<fs, argv, idx, task_def_str, task_def, clean_task_def_str,
                   changes_made, stderr, writes, run, fs0, fs1, exit1, end1>>
    /\ UNCHANGED harnessVars

\* the tool is invoked a second time with the same arguments
Rerun ==
    /\ pc \in {"done", "aborted"}
    /\ run = 1
    /\ run' = 2
    /\ fs1' = fs
    /\ exit1' = exit_code
    /\ end1' = pc
    /\ pc' = "for"
    /\ idx' = 1
    /\ changes_made' = FALSE
    /\ exit_code' = -1
    /\ stderr' = <<>>
    /\ writes' = {}
    /\ task_def_str' = Null
    /\ task_def' = Null
    /\ clean_task_def_str' = Null
    /\ UNCHANGED <<fs, argv, fs0>>
    /\ UNCHANGED harnessVars

(***************************************************************************)
(* The documents the model draws from                                      *)
(***************************************************************************)
MaxContainers == 2

\* one JSON value of every kind the cleaners tell apart
Vals ==
    {Null, Num(0), Bool(FALSE), Str(""), List(<<>>), List(<<Num(1)>>), Dict(<<>>)}

\* key k absent, or present with one of the values vs
Opt(k, vs) == {<<>>} \cup {<< <<k, v>> >> : v \in vs}

\* the root's own keys: an ignored key, a null-default key, a key with both
\* defaults, and a key no rule names
RootPairs ==
    {a \o b \o c \o d :
        a \in Opt("status", {Str("ACTIVE"), Null}),
        b \in Opt("cpu", Vals),
        c \in Opt("tags", Vals),
        d \in Opt("family", {Str("x"), Null, List(<<>>)})}

\* the root of the example document, without its containerDefinitions
ExampleRootPairs ==
    << <<"status", Str("ACTIVE")>>, <<"cpu", Null>>, <<"tags", List(<<>>)>>,
       <<"family", Str("x")>> >>

\* container records: a null-default key, a key with both defaults, and keys the
\* nested rules do not name (one of them ignored at the root)
Containers ==
    {Dict(a) : a \in Opt("name", Vals)}
    \cup {Dict(b) : b \in Opt("portMappings", Vals)}
    \cup {Dict(<< <<"status", Null>>, <<"a", List(<<>>)>>, <<"essential", Null>>,
                  <<"portMappings", List(<<>>)>> >>)}

\* elements of containerDefinitions that are not records
NonRecords == {Null, Str("a"), Str("name"), List(<<>>), List(<<Str("name")>>)}

Elements == Containers \cup NonRecords

SeqsUpTo(S, n) == UNION {[1..m -> S] : m \in 0..n}

\* values of containerDefinitions that are not a sequence
NonSequences ==
    {Null, Num(0), Bool(FALSE), Str(""), Str("ab"), Dict(<<>>),
     Dict(<< <<"a", Num(1)>> >>), Dict(<< <<"cpu", Num(1)>> >>)}

ContainerDefinitionsAll ==
    Opt("containerDefinitions",
        NonSequences \cup {List(s) : s \in SeqsUpTo(Elements, MaxContainers)})

ContainerDefinitionsFew ==
    Opt("containerDefinitions",
        {List(<<>>),
         List(<<Dict(<< <<"name", Str("c")>>, <<"essential", Null>>,
                        <<"portMappings", List(<<>>)>> >>)>>)})

Documents ==
    {Dict(r \o c) : r \in RootPairs, c \in ContainerDefinitionsFew}
    \cup {Dict(ExampleRootPairs \o c) : c \in ContainerDefinitionsAll}
    \cup {Null, Num(0), Str("status"), List(<<>>), List(<<Str("status")>>)}

(***************************************************************************)
(* The pruning harness: a parsed document is cleaned, and the result       *)
(* cleaned again                                                           *)
(***************************************************************************)
NoResult == [d |-> Null, log |-> <<>>]

PruneOnce ==
    /\ phase = "parsed"
    /\ once' = TaskClean(doc)
    /\ phase' = "cleaned"
    /\ UNCHANGED <<doc, twice>>
    /\ UNCHANGED cliVars

PruneTwice ==
    /\ phase = "cleaned"
    /\ ~IsRaise(once.d)
    /\ twice' = TaskClean(once.d)
    /\ phase' = "recleaned"
    /\ UNCHANGED <<doc, once>>
    /\ UNCHANGED cliVars

(***************************************************************************)
(* The files the driver is run on                                          *)
(***************************************************************************)
Container(pairs) == Dict(pairs)

\* the example document: status ignored, cpu/tags defaults, nested defaults
ExampleDoc ==
    Dict(<< <<"status", Str("ACTIVE")>>, <<"cpu", Null>>, <<"tags", List(<<>>)>>,
            <<"family", Str("x")>>,
            <<"containerDefinitions",
              List(<<Container(<< <<"name", Str("c")>>, <<"essential", Null>>,
                                  <<"portMappings", List(<<>>)>> >>)>>)>> >>)

\* nothing to prune, keys not in sorted order
PrunedUnsorted ==
    Dict(<< <<"family", Str("x")>>,
            <<"containerDefinitions",
              List(<<Container(<< <<"name", Str("c")>> >>)>>)>> >>)

\* nothing to prune: values that only look like defaults
LookAlikes ==
    Dict(<< <<"containerDefinitions",
              List(<<Container(<< <<"essential", Bool(FALSE)>>,
                                  <<"portMappings", Str("")>>,
                                  <<"status", Null>> >>)>>)>>,
            <<"cpu", Num(0)>>, <<"family", List(<<>>)>>, <<"tags", Str("")>> >>)

\* only nested defaults, two containers
NestedOnly ==
    Dict(<< <<"containerDefinitions",
              List(<<Container(<< <<"name", Null>>, <<"essential", Null>> >>),
                     Container(<< <<"portMappings", List(<<>>)>>,
                                  <<"status", Str("ACTIVE")>>,
                                  <<"name", Str("c")>> >>)>>)>> >>)

NoContainers == Dict(<< <<"family", Str("x")>>, <<"cpu", Null>> >>)

NullContainers == Dict(<< <<"containerDefinitions", Null>>, <<"cpu", Null>> >>)

StringContainers == Dict(<< <<"containerDefinitions", Str("ab")>> >>)

\* what a path can hold before the first run: no file, text that is not JSON,
\* and documents in and out of canonical layout and key order
FileStates ==
    {NoFile, Malformed,
     Text("other", ExampleDoc),
     Text("indent4", SortKeys(PrunedUnsorted)),
     Text("other", PrunedUnsorted),
     Text("indent4", LookAlikes),
     Text("other", NestedOnly),
     Text("indent4", NoContainers),
     Text("other", NullContainers),
     Text("other", StringContainers)}

(***************************************************************************)
(* Specifications                                                          *)
(***************************************************************************)
Init ==
    /\ argv \in SeqsUpTo(Paths, MaxFiles)
    /\ fs \in [Paths -> FileStates]
    /\ fs0 = fs
    /\ fs1 = fs
    /\ exit1 = -1
    /\ end1 = "running"
    /\ run = 1
    /\ pc = "for"
    /\ idx = 1
    /\ changes_made = FALSE
    /\ exit_code = -1
    /\ stderr = <<>>
    /\ writes = {}
    /\ task_def_str = Null
    /\ task_def = Null
    /\ clean_task_def_str = Null
    /\ doc = Null
    /\ once = NoResult
    /\ twice = NoResult
    /\ phase = "idle"

Next ==
    \/ ReadFile
    \/ Loads
    \/ Clean
    \/ WriteBack
    \/ Exit
    \/ Rerun

Spec == Init /\ [][Next]_vars

InitClean ==
    /\ doc \in Documents
    /\ once = NoResult
    /\ twice = NoResult
    /\ phase = "parsed"
    /\ argv = <<>>
    /\ fs = [p \in Paths |-> NoFile]
    /\ fs0 = fs
    /\ fs1 = fs
    /\ exit1 = -1
    /\ end1 = "running"
    /\ run = 1
    /\ pc = "idle"
    /\ idx = 1
    /\ changes_made = FALSE
    /\ exit_code = -1
    /\ stderr = <<>>
    /\ writes = {}
    /\ task_def_str = Null
    /\ task_def = Null
    /\ clean_task_def_str = Null

\* one run of the driver on one file, which holds any document of Documents
InitOne ==
    /\ argv = <<"a.json">>
    /\ \E d \in Documents :
          fs = [p \in Paths |-> IF p = "a.json" THEN Text("other", d) ELSE NoFile]
    /\ fs0 = fs
    /\ fs1 = fs
    /\ exit1 = -1
    /\ end1 = "running"
    /\ run = 1
    /\ pc = "for"
    /\ idx = 1
    /\ changes_made = FALSE
    /\ exit_code = -1
    /\ stderr = <<>>
    /\ writes = {}
    /\ task_def_str = Null
    /\ task_def = Null
    /\ clean_task_def_str = Null
    /\ doc = Null
    /\ once = NoResult
    /\ twice = NoResult
    /\ phase = "idle"

NextOne ==
    \/ ReadFile
    \/ Loads
    \/ Clean
    \/ WriteBack
    \/ Exit

SpecOne == InitOne /\ [][NextOne]_vars

NextClean ==
    \/ PruneOnce
    \/ PruneTwice

SpecClean == InitClean /\ [][NextClean]_vars

(***************************************************************************)
(* Properties of the pruning passes (checked under SpecClean)              *)
(***************************************************************************)
Pruned == phase \in {"cleaned", "recleaned"} /\ IsDict(doc) /\ ~IsRaise(once.d)

ContainersOf(d) == Get(d, "containerDefinitions")[2]

\* the records a successful pruning cleaned, each with its rule table and its
\* state before and after: the root, and every record element of a
\* containerDefinitions list
CleanedRecords ==
    IF ~Pruned THEN {}
    ELSE {<<TaskDefinitionCleaner, doc, once.d>>}
         \cup (IF IsList(Get(doc, "containerDefinitions"))
               THEN {<<ContainerDefinitionCleaner, ContainersOf(doc)[i],
                       ContainersOf(once.d)[i]>> :
                        i \in {j \in 1..Len(ContainersOf(doc)) :
                                    IsDict(ContainersOf(doc)[j])}}
               ELSE {})

Kept(before, after, k) == HasKey(after, k) /\ Get(after, k) = Get(before, k)
Removed(after, k) == ~HasKey(after, k)

\* C8 as stated: a present null-default key is removed if and only if its value
\* is exactly null, and is retained with any other value.
C8_RemovedIffNull ==
    \A r \in CleanedRecords :
        \A k \in Range(r[1].keys_none_default) \cap Keys(r[2]) :
            IF Get(r[2], k) = Null THEN Removed(r[3], k) ELSE Kept(r[2], r[3], k)

\* C8 amended: a present null-default key is removed if and only if its value is
\* exactly null, or the key is also an empty-sequence-default key and its value
\* is an empty sequence; otherwise it is retained with its value.
C8_RemovedIffNullOrEmptyDefault ==
    \A r \in CleanedRecords :
        \A k \in Range(r[1].keys_none_default) \cap Keys(r[2]) :
            IF \/ Get(r[2], k) = Null
               \/ /\ k \in Range(r[1].keys_empty_list_default)
                  /\ Get(r[2], k) = List(<<>>)
            THEN Removed(r[3], k)
            ELSE Kept(r[2], r[3], k)

\* a root and a nested record each lost a null-valued null-default key and a
\* sibling record kept the same key with the value 0
C8_Witness ==
    /\ Pruned
    /\ \E r \in CleanedRecords :
          /\ r[1] = TaskDefinitionCleaner
          /\ HasKey(r[2], "cpu") /\ Get(r[2], "cpu") = Null /\ Removed(r[3], "cpu")
    /\ \E r \in CleanedRecords :
          /\ r[1] = ContainerDefinitionCleaner
          /\ HasKey(r[2], "name") /\ Get(r[2], "name") = Null /\ Removed(r[3], "name")
    /\ \E r \in CleanedRecords :
          /\ r[1] = ContainerDefinitionCleaner
          /\ HasKey(r[2], "name") /\ Get(r[2], "name") = Num(0) /\ HasKey(r[3], "name")

\* C9 as stated: a present empty-sequence-default key is removed if and only if
\* its value is an empty sequence; a non-empty sequence and every non-sequence
\* value, null included, is retained.
C9_RemovedIffEmptyList ==
    \A r \in CleanedRecords :
        \A k \in Range(r[1].keys_empty_list_default) \cap Keys(r[2]) :
            IF Get(r[2], k) = List(<<>>) THEN Removed(r[3], k) ELSE Kept(r[2], r[3], k)

\* C9 amended: a present empty-sequence-default key is removed if and only if
\* its value is an empty sequence, or the key is also a null-default key (as
\* every such key of both rule tables is) and its value is null; a non-empty
\* sequence and every other non-sequence value is retained.
C9_RemovedIffEmptyListOrNullDefault ==
    \A r \in CleanedRecords :
        \A k \in Range(r[1].keys_empty_list_default) \cap Keys(r[2]) :
            IF \/ Get(r[2], k) = List(<<>>)
               \/ /\ k \in Range(r[1].keys_none_default)
                  /\ Get(r[2], k) = Null
            THEN Removed(r[3], k)
            ELSE Kept(r[2], r[3], k)

\* a root lost an empty tags list, one nested record lost an empty portMappings
\* list and another kept a portMappings that is the empty string
C9_Witness ==
    /\ Pruned
    /\ \E r \in CleanedRecords :
          /\ r[1] = TaskDefinitionCleaner
          /\ HasKey(r[2], "tags") /\ Get(r[2], "tags") = List(<<>>)
          /\ Removed(r[3], "tags")
    /\ \E r \in CleanedRecords :
          /\ r[1] = ContainerDefinitionCleaner
          /\ HasKey(r[2], "portMappings") /\ Get(r[2], "portMappings") = List(<<>>)
          /\ Removed(r[3], "portMappings")
    /\ \E r \in CleanedRecords :
          /\ r[1] = ContainerDefinitionCleaner
          /\ HasKey(r[2], "portMappings") /\ Get(r[2], "portMappings") = Str("")
          /\ HasKey(r[3], "portMappings")

\* C6: pruning is idempotent: when pruning a document succeeds, pruning the
\* result again succeeds, removes no key (logs no removal) and returns a document
\* equal to the first result, root and nested records alike.
C6_Idempotent ==
    phase = "recleaned" =>
        /\ ~IsRaise(twice.d)
        /\ twice.d = once.d
        /\ twice.log = <<>>

\* the first pruning removed keys from the root and from a nested record, and the
\* second pruning has run
C6_Witness ==
    /\ phase = "recleaned"
    /\ \E i \in 1..Len(once.log) : once.log[i][1] = "cpu"
    /\ \E i \in 1..Len(once.log) : once.log[i][1] = "portMappings"
    /\ once.d # doc

\* C3 as stated: pruning raises whenever containerDefinitions is absent from the
\* root record or its value is not a sequence.
C3_NonSequenceRaises ==
    (/\ phase = "cleaned"
     /\ IsDict(doc)
     /\ \/ ~HasKey(doc, "containerDefinitions")
        \/ ~IsList(Get(doc, "containerDefinitions")))
    => IsRaise(once.d)

(***************************************************************************)
(* Properties of the driver (checked under Spec)                           *)
(***************************************************************************)
\* the file system the current invocation started from
StartFs == IF run = 1 THEN fs0 ELSE fs1

\* position i names a path no earlier position names
FirstOcc(i) == \A j \in 1..(i - 1) : argv[j] # argv[i]

\* C1: changes_made is true exactly when a file has been written in this run
\* (never reset by a later unchanged file), a file is written exactly when the
\* file system differs from the one the run started from, and a run that
\* processes every path without an exception exits 1 if a file was written and 0
\* if none was.
C1_ExitCode ==
    /\ changes_made <=> writes # {}
    /\ writes # {} <=> fs # StartFs
    /\ pc = "done" => exit_code = (IF writes # {} THEN 1 ELSE 0)
    /\ pc \notin {"done", "aborted"} => exit_code = -1

\* the first of two files was written, the second was left as it was, and the
\* run exited 1
C1_Witness ==
    /\ pc = "done"
    /\ Len(argv) = 2
    /\ writes = {1}
    /\ fs[argv[2]] = StartFs[argv[2]]
    /\ argv[2] # argv[1]
    /\ exit_code = 1

\* C2: a processed file is written if and only if the canonical serialization of
\* the pruned document differs from the canonical serialization of the document
\* as parsed; when written it holds the former, and otherwise it holds the text
\* it held before, whatever its layout and key order.
C2_WrittenIffChanged ==
    \A i \in 1..Len(argv) :
        (i < idx /\ FirstOcc(i)) =>
            LET before == StartFs[argv[i]]
                after == dumps(TaskClean(loads(before)).d)
            IN  /\ i \in writes <=> after # dumps(loads(before))
                /\ fs[argv[i]] = (IF i \in writes THEN after ELSE before)

\* one file was rewritten in canonical form, and another, not canonical in
\* layout and key order but with nothing to prune, was left untouched
C2_Witness ==
    /\ pc = "done"
    /\ Len(argv) = 2
    /\ StartFs[argv[1]] = Text("other", ExampleDoc)
    /\ fs[argv[1]] = Text("indent4", SortKeys(TaskClean(ExampleDoc).d))
    /\ StartFs[argv[2]] = Text("other", PrunedUnsorted)
    /\ fs[argv[2]] = Text("other", PrunedUnsorted)
    /\ writes = {1}

\* C4: a file whose text is not JSON is never written (it holds the same text
\* ever after), the run cannot get past it, and the run ends by an uncaught
\* exception with a nonzero status.
C4_MalformedAborts ==
    /\ \A p \in Paths : fs0[p] = Malformed => fs[p] = Malformed
    /\ \A i \in 1..Len(argv) :
          fs0[argv[i]] = Malformed =>
              /\ idx <= i
              /\ i \notin writes
              /\ pc # "done"
              /\ pc \notin {"clean", "compare"} \/ idx < i
              /\ pc = "aborted" => exit_code # 0

\* the run wrote its first file and died on the second, which is not JSON
C4_Witness ==
    /\ pc = "aborted"
    /\ idx = 2
    /\ fs0[argv[2]] = Malformed
    /\ fs[argv[2]] = Malformed
    /\ writes = {1}
    /\ exit_code = 1

\* the canonical text the run leaves in a file that holds `before`
Rewritten(before) == dumps(TaskClean(loads(before)).d)

\* the run gets through a file that holds `before` without an exception
Processable(before) ==
    /\ before # NoFile
    /\ ~IsRaise(loads(before))
    /\ ~IsRaise(TaskClean(loads(before)).d)

\* C5: files are processed one at a time in argument order: every position
\* before the current one is finished (written if and only if it needed a
\* rewrite, and then holding its pruned canonical text), no position from the
\* current one on has been written, and a path named only from the current
\* position on holds what it held when the run started.  In particular, when
\* the run dies on the k-th file, the earlier rewrites stand and the k-th and
\* later files are unwritten.
C5_InOrderNoRollback ==
    /\ \A i \in writes : i < idx
    /\ \A i \in 1..Len(argv) :
          /\ (i < idx /\ FirstOcc(i)) =>
                /\ Processable(StartFs[argv[i]])
                /\ IF Rewritten(StartFs[argv[i]]) # dumps(loads(StartFs[argv[i]]))
                   THEN i \in writes /\ fs[argv[i]] = Rewritten(StartFs[argv[i]])
                   ELSE i \notin writes /\ fs[argv[i]] = StartFs[argv[i]]
          /\ (i >= idx /\ \A j \in 1..(idx - 1) : argv[j] # argv[i]) =>
                fs[argv[i]] = StartFs[argv[i]]
    /\ pc = "aborted" =>
          /\ idx <= Len(argv)
          /\ ~Processable(fs[argv[idx]])

\* the run rewrote its first file and died on its second, a document with no
\* containerDefinitions
C5_Witness ==
    /\ pc = "aborted"
    /\ run = 1
    /\ idx = 2
    /\ fs0[argv[1]] = Text("other", NestedOnly)
    /\ fs[argv[1]] = Rewritten(fs0[argv[1]])
    /\ fs[argv[1]] # fs0[argv[1]]
    /\ fs0[argv[2]] = Text("indent4", NoContainers)
    /\ fs[argv[2]] = fs0[argv[2]]

\* C7 as stated: a second run over the same paths modifies no file and does not
\* exit nonzero.
C7_SecondRunExitsZero ==
    run = 2 =>
        /\ fs = fs1
        /\ pc \in {"done", "aborted"} => exit_code = 0

\* C7 amended: a second run over the same paths modifies no file; when the first
\* run processed every path without an exception, the second one does too,
\* removes no key and exits 0; when the first run died of an exception, the
\* second dies the same way with status 1.
C7_SecondRunChangesNothing ==
    run = 2 =>
        /\ fs = fs1
        /\ writes = {}
        /\ end1 = "done" =>
              /\ pc # "aborted"
              /\ stderr = <<>>
              /\ pc = "done" => exit_code = 0
        /\ end1 = "aborted" =>
              /\ pc # "done"
              /\ pc = "aborted" => exit_code = 1

\* the first run rewrote two files and exited 1; the second run has finished
C7_Witness ==
    /\ run = 2
    /\ pc = "done"
    /\ Len(argv) = 2
    /\ exit1 = 1
    /\ fs0[argv[1]] # fs1[argv[1]]
    /\ fs0[argv[2]] # fs1[argv[2]]
    /\ exit_code = 0

(***************************************************************************)
(* What pruning is meant to produce, stated apart from the cleaners        *)
(* (checked under SpecOne)                                                 *)
(***************************************************************************)
InList(k, keys) == \E i \in 1..Len(keys) : keys[i] = k

Prunable(cls, k, v) ==
    \/ InList(k, cls.keys_ignored)
    \/ InList(k, cls.keys_none_default) /\ v = Null
    \/ InList(k, cls.keys_empty_list_default) /\ v = List(<<>>)

WithoutPrunable(cls, d) == Dict(SelectSeq(d[2], LAMBDA p : ~Prunable(cls, p[1], p[2])))

WellFormed(d) ==
    /\ IsDict(d)
    /\ HasKey(d, "containerDefinitions")
    /\ IsList(Get(d, "containerDefinitions"))
    /\ \A i \in 1..Len(ContainersOf(d)) : IsDict(ContainersOf(d)[i])

HasPrunable(d) ==
    \/ \E i \in 1..Len(d[2]) : Prunable(TaskDefinitionCleaner, d[2][i][1], d[2][i][2])
    \/ \E i \in 1..Len(ContainersOf(d)) :
          \E j \in 1..Len(ContainersOf(d)[i][2]) :
              Prunable(ContainerDefinitionCleaner,
                       ContainersOf(d)[i][2][j][1], ContainersOf(d)[i][2][j][2])

\* the root without its prunable keys, and containerDefinitions the sequence of
\* its elements in order, each without its prunable keys
ExpectedDoc(d) ==
    LET root == WithoutPrunable(TaskDefinitionCleaner, d)
    IN  Put(root, "containerDefinitions",
            List([i \in 1..Len(ContainersOf(d)) |->
                    WithoutPrunable(ContainerDefinitionCleaner, ContainersOf(d)[i])]))

\* C10: once the run is past a file that held a well-formed document with at
\* least one prunable key, the file holds the canonical text of the document
\* without exactly its prunable keys (root: ignored and default-valued keys;
\* each container, in place: default-valued keys; every other key with its
\* value), the file was written, and the run cannot exit 0.
C10_OmitsExactlyPrunable ==
    \A i \in 1..Len(argv) :
        (/\ i < idx
         /\ FirstOcc(i)
         /\ StartFs[argv[i]] \notin {NoFile, Malformed}
         /\ WellFormed(loads(StartFs[argv[i]]))
         /\ HasPrunable(loads(StartFs[argv[i]])))
        => /\ fs[argv[i]] =
                Text("indent4", SortKeys(ExpectedDoc(loads(StartFs[argv[i]]))))
           /\ i \in writes
           /\ changes_made
           /\ pc \in {"done", "aborted"} => exit_code = 1

\* the example document was processed: its file holds
\* {"containerDefinitions": [{"name": "c"}], "family": "x"} and the run exited 1
C10_Witness ==
    /\ pc = "done"
    /\ Len(argv) = 1
    /\ fs0[argv[1]] = Text("other", ExampleDoc)
    /\ fs[argv[1]] =
          Text("indent4",
               Dict(<< <<"containerDefinitions",
                         List(<<Dict(<< <<"name", Str("c")>> >>)>>)>>,
                       <<"family", Str("x")>> >>))
    /\ exit_code = 1

====
